---- MODULE Spec2Model ----
(***************************************************************************)
(* Weather Markov-chain predictor: the hosting shell around the WASM       *)
(* engine.  The module models                                              *)
(*   - the useMarkovChain hook (module load, the three engine wrappers),   *)
(*   - App (city, matrix, simulation results, loading and error state),    *)
(*   - SimulationControl (days input, initial state, run button),          *)
(*   - DataFetcher (weather query, processing of fetched data),            *)
(*   - StatisticsPanel.calculateAverageStreak (a pure function),           *)
(*   - WeatherTimeline's summary statistics (a pure function),             *)
(*   - useWeatherAPI: fetchWeatherData and the retries of one query.       *)
(* The engine itself (Rust, compiled to WASM) is an external collaborator: *)
(* each call into it either returns a value or throws, chosen freely.      *)
(***************************************************************************)
EXTENDS Integers, Sequences, FiniteSets, TLC

VARIABLES
    \* ---- useMarkovChain ----
    wasmModule,     \* NullModule or LoadedModule
    isReady,        \* BOOLEAN
    hookError,      \* NullV or an Error value
    loadPc,         \* position of the loadWASM effect
    mounted,        \* the effect's `mounted` flag
    loadTrace,      \* the load steps that have completed, in order
    engineCall,     \* the call into the engine made by the latest step
    hookResult,     \* how the latest wrapper call settled
    matrixBuilt,    \* process_weather_data has returned a matrix
    trajectorySimulated, \* run_simulation has returned a trajectory
    \* ---- App ----
    selectedCity, historicalData, transitionMatrix, simulationResults,
    isLoading, error,
    simPending,     \* handleSimulation suspended at its await
    handlerCall,    \* the handleSimulation invocation made by the latest step
    \* ---- SimulationControl ----
    days, initialState, validationError,
    onSimulateCall, \* the onSimulate invocation made by the latest step
    \* ---- DataFetcher / useWeatherAPI ----
    query,          \* per city: the weather query's data, error, fetching
    isProcessing, processingError,
    procPending,    \* handleProcessData suspended at its await
    onDataFetchedCall, \* the onDataFetched invocation made by the latest step
    \* ---- StatisticsPanel ----
    statistics,     \* the `statistics` prop
    selfProbs,      \* diagonal of the matrix the statistics were derived from
    shownStreak,    \* what the panel shows per state
    \* ---- WeatherTimeline ----
    simulationData, \* the `simulationData` prop
    shownSummary,   \* the summary statistics the timeline shows
    \* ---- useWeatherAPI: one query, from refetch to its result ----
    apiKey,         \* import.meta.env.VITE_WEATHER_API_KEY
    cityParam,      \* the `city` parameter
    fetchPc,        \* position of the query's fetch
    failureCount,   \* the retryer's failureCount
    executions,     \* runs of fetchWeatherData in the current request
    httpRequests,   \* calls of fetch(url) in the current request
    retryDelays,    \* the delays waited before the retries, in order
    response,       \* status of the response to the latest fetch(url)
    fetchOutcome,   \* how the latest run of fetchWeatherData settled
    queryResult     \* the query's status, data and error

hookVars == <<wasmModule, isReady, hookError, loadPc, mounted, loadTrace,
              engineCall, hookResult, matrixBuilt, trajectorySimulated>>
loadVars == <<wasmModule, isReady, hookError, loadPc, mounted, loadTrace>>
appVars == <<selectedCity, historicalData, transitionMatrix, simulationResults,
             isLoading, error, simPending>>
controlVars == <<days, initialState, validationError>>
fetcherVars == <<query, isProcessing, processingError, procPending>>
callbackVars == <<handlerCall, onSimulateCall, onDataFetchedCall>>
statsVars == <<statistics, selfProbs, shownStreak>>
timelineVars == <<simulationData, shownSummary>>
weatherVars == <<apiKey, cityParam, fetchPc, failureCount, executions,
                 httpRequests, retryDelays, response, fetchOutcome, queryResult>>
panelVars == <<statsVars, timelineVars, weatherVars>>
vars == <<hookVars, appVars, controlVars, fetcherVars, callbackVars, panelVars>>

(***************************************************************************)
(* JavaScript values                                                       *)
(***************************************************************************)
Null == [kind |-> "null"]

\* A value that can be thrown: a string, an Error object (by its message),
\* or anything else.
Str(s) == [kind |-> "string", val |-> s]
Err(m) == [kind |-> "Error", val |-> m]
Other == [kind |-> "other"]

\* null for string-valued state (the error messages kept by the components)
NullStr == "null"

\* A JavaScript number: an integer, or NaN.
Num(n) == [kind |-> "int", n |-> n]
NaN == [kind |-> "NaN"]

\* What the engine and the module loader may throw.
Thrown == {Str("engine rejected the input"), Err("engine failure"), Other}

\* An engine call either returns a value or throws one.
Return(v) == [kind |-> "return", val |-> v]
Throw(e) == [kind |-> "throw", val |-> e]

(***************************************************************************)
(* The data that flows through the shell                                   *)
(***************************************************************************)
Cities == {"Mumbai", "Delhi"}

\* Weather payloads the API can answer with (WeatherAPIResponse), numbered
\* from 1; 0 stands for `undefined`.
MaxPayload == 1
Payloads == 1..MaxPayload
NoData == 0

\* JSON.stringify(data): the payload as text.
JsonStringify(data) == [kind |-> "json", of |-> data]

\* MatrixData values process_weather_data can return: the state list is the
\* list of the states seen in the data.
Matrix(states) == [kind |-> "matrix", states |-> states]
Matrices == {Matrix(<<"Sunny", "Rainy", "Cloudy">>), Matrix(<<"Rainy", "Cloudy">>)}

\* SimulationDay[] returned by run_simulation for a request.
Predictions(d, s) == [kind |-> "predictions", days |-> d, first |-> s]

\* The Statistics object returned by get_statistics.
StatisticsValue == [kind |-> "statistics"]

(***************************************************************************)
(* useMarkovChain                                                          *)
(***************************************************************************)
NullModule == "null"
LoadedModule == "wasm"

NoCall == [op |-> "none"]
NoResult == [op |-> "none"]

\* loadWASM, catch block: the Error stored by setError.
LoadCatchError(err) ==
    IF err.kind = "Error" THEN err ELSE Err("Failed to load WASM module")

\* loadWASM, after init_markov_engine returned: the state set when mounted.
LoadSuccessState == [wasmModule |-> LoadedModule, isReady |-> TRUE, error |-> Null]

\* The catch block without its setError.
LoadFailureStateNoError(err) ==
    [wasmModule |-> wasmModule, isReady |-> FALSE, error |-> hookError]

\* loadWASM, catch block: the state set when mounted.
LoadFailureState(err) ==
    [wasmModule |-> wasmModule, isReady |-> FALSE, error |-> LoadCatchError(err)]

LoadCatch(err) ==
    /\ loadPc' = "failed"
    /\ IF mounted
       THEN LET st == LoadFailureState(err)
            IN /\ wasmModule' = st.wasmModule
               /\ isReady' = st.isReady
               /\ hookError' = st.error
       ELSE UNCHANGED <<wasmModule, isReady, hookError>>

\* await import("../wasm/rust_core.js") resolves.
LoadImportResolved ==
    /\ loadPc = "importing"
    /\ loadPc' = "initializing"
    /\ loadTrace' = Append(loadTrace, "import")
    /\ engineCall' = NoCall
    /\ hookResult' = NoResult
    /\ UNCHANGED <<wasmModule, isReady, hookError, mounted, matrixBuilt,
                   trajectorySimulated>>

\* await import(...) rejects.
LoadImportRejected ==
    /\ loadPc = "importing"
    /\ \E e \in Thrown : LoadCatch(e)
    /\ engineCall' = NoCall
    /\ hookResult' = NoResult
    /\ UNCHANGED <<mounted, loadTrace, matrixBuilt, trajectorySimulated>>

\* await wasm.default() resolves; init_markov_engine() is then called in the
\* same turn and either returns or throws.
LoadDefaultResolved ==
    /\ loadPc = "initializing"
    /\ engineCall' = [op |-> "init_markov_engine"]
    /\ \E out \in {Return(Null)} \cup {Throw(e) : e \in Thrown} :
         IF out.kind = "return"
         THEN /\ loadTrace' = loadTrace \o <<"default", "init_markov_engine">>
              /\ loadPc' = "done"
              /\ IF mounted
                 THEN /\ wasmModule' = LoadSuccessState.wasmModule
                      /\ isReady' = LoadSuccessState.isReady
                      /\ hookError' = LoadSuccessState.error
                 ELSE UNCHANGED <<wasmModule, isReady, hookError>>
         ELSE /\ loadTrace' = Append(loadTrace, "default")
              /\ LoadCatch(out.val)
    /\ hookResult' = NoResult
    /\ UNCHANGED <<mounted, matrixBuilt, trajectorySimulated>>

\* await wasm.default() rejects.
LoadDefaultRejected ==
    /\ loadPc = "initializing"
    /\ \E e \in Thrown : LoadCatch(e)
    /\ engineCall' = NoCall
    /\ hookResult' = NoResult
    /\ UNCHANGED <<mounted, loadTrace, matrixBuilt, trajectorySimulated>>

\* The effect's cleanup.
Unmount ==
    /\ mounted
    /\ mounted' = FALSE
    /\ engineCall' = NoCall
    /\ hookResult' = NoResult
    /\ UNCHANGED <<wasmModule, isReady, hookError, loadPc, loadTrace, matrixBuilt,
                   trajectorySimulated>>

\* The guard shared by the three wrappers.
WasmReady == wasmModule # NullModule /\ isReady

NotReady(op) ==
    [op |-> op, call |-> NoCall, status |-> "rejected",
     message |-> "WASM module not ready", thrown |-> Null, value |-> Null]

Resolved(op, call, v) ==
    [op |-> op, call |-> call, status |-> "resolved",
     message |-> "", thrown |-> Null, value |-> v]

Rejected(op, call, e, msg) ==
    [op |-> op, call |-> call, status |-> "rejected",
     message |-> msg, thrown |-> e, value |-> Null]

\* The wrapper without its readiness guard.
processDataNoGuard(jsonData, out) ==
    LET call == [op |-> "process_weather_data", jsonStr |-> jsonData]
    IN IF out.kind = "return"
       THEN Resolved("processData", call, out.val)
       ELSE Rejected("processData", call, out.val,
                IF out.val.kind = "string" THEN out.val.val
                ELSE IF out.val.kind = "Error" THEN out.val.val
                ELSE "Failed to process weather data")

\* processData(jsonData), the engine call settling as `out`.
processData(jsonData, out) ==
    IF ~WasmReady THEN NotReady("processData")
    ELSE LET call == [op |-> "process_weather_data", jsonStr |-> jsonData]
         IN IF out.kind = "return"
            THEN Resolved("processData", call, out.val)
            ELSE Rejected("processData", call, out.val,
                     IF out.val.kind = "string" THEN out.val.val
                     ELSE IF out.val.kind = "Error" THEN out.val.val
                     ELSE "Failed to process weather data")

\* runSimulation(days, initialState), the engine call settling as `out`.
runSimulation(d, s, out) ==
    IF ~WasmReady THEN NotReady("runSimulation")
    ELSE LET call == [op |-> "run_simulation", days |-> d, initialState |-> s]
         IN IF out.kind = "return"
            THEN Resolved("runSimulation", call, out.val)
            ELSE Rejected("runSimulation", call, out.val,
                     IF out.val.kind = "string" THEN out.val.val
                     ELSE IF out.val.kind = "Error" THEN out.val.val
                     ELSE "Failed to run simulation")

\* The wrapper converting only Error objects, not thrown strings.
getStatisticsNoString(out) ==
    IF ~WasmReady THEN NotReady("getStatistics")
    ELSE LET call == [op |-> "get_statistics"]
         IN IF out.kind = "return"
            THEN Resolved("getStatistics", call, out.val)
            ELSE Rejected("getStatistics", call, out.val,
                     IF out.val.kind = "Error" THEN out.val.val
                     ELSE "Failed to get statistics")

\* getStatistics(), the engine call settling as `out`.
getStatistics(out) ==
    IF ~WasmReady THEN NotReady("getStatistics")
    ELSE LET call == [op |-> "get_statistics"]
         IN IF out.kind = "return"
            THEN Resolved("getStatistics", call, out.val)
            ELSE Rejected("getStatistics", call, out.val,
                     IF out.val.kind = "string" THEN out.val.val
                     ELSE IF out.val.kind = "Error" THEN out.val.val
                     ELSE "Failed to get statistics")

\* How the engine may settle each call.
ProcessOutcomes == {Return(m) : m \in Matrices} \cup {Throw(e) : e \in Thrown}
SimulationOutcomes(d, s) == {Return(Predictions(d, s))} \cup {Throw(e) : e \in Thrown}
StatisticsOutcomes == {Return(StatisticsValue)} \cup {Throw(e) : e \in Thrown}

\* The hook's bookkeeping of a settled wrapper call.
Settle(res) ==
    /\ hookResult' = res
    /\ engineCall' = res.call
    /\ matrixBuilt' = (matrixBuilt \/ (res.op = "processData" /\ res.status = "resolved"))
    /\ trajectorySimulated' =
         (trajectorySimulated \/ (res.op = "runSimulation" /\ res.status = "resolved"))

\* A step that calls no wrapper.
NoHookCall ==
    /\ hookResult' = NoResult
    /\ engineCall' = NoCall
    /\ UNCHANGED <<matrixBuilt, trajectorySimulated>>

\* A consumer of the hook calls one of its three functions.
CallProcessData ==
    /\ mounted
    /\ \E p \in Payloads, out \in ProcessOutcomes :
         Settle(processData(JsonStringify(p), out))
    /\ UNCHANGED loadVars

CallRunSimulation ==
    /\ mounted
    /\ \E d \in {Num(1), Num(30)}, s \in {"Sunny", "Rainy"} :
         \E out \in SimulationOutcomes(d, s) : Settle(runSimulation(d, s, out))
    /\ UNCHANGED loadVars

CallGetStatistics ==
    /\ mounted
    /\ \E out \in StatisticsOutcomes : Settle(getStatistics(out))
    /\ UNCHANGED loadVars

(***************************************************************************)
(* SimulationControl                                                       *)
(***************************************************************************)
weatherStates == <<"Sunny", "Rainy", "Cloudy">>

\* Texts of the days input (event.target.value), as character sequences.
DaysInputs ==
    { <<>>, <<"0">>, <<"1", ".", "5">>, <<"3", "6", "5">>, <<"3", "6", "6">> }

Digits == {"0", "1", "2", "3", "4", "5", "6", "7", "8", "9"}

DigitVal(c) ==
    CASE c = "0" -> 0 [] c = "1" -> 1 [] c = "2" -> 2 [] c = "3" -> 3
      [] c = "4" -> 4 [] c = "5" -> 5 [] c = "6" -> 6 [] c = "7" -> 7
      [] c = "8" -> 8 [] c = "9" -> 9

RECURSIVE SkipSpace(_)
SkipSpace(t) == IF t # <<>> /\ Head(t) = " " THEN SkipSpace(Tail(t)) ELSE t

\* The value of the longest prefix of digits of t, continuing from acc.
RECURSIVE DigitsValue(_, _)
DigitsValue(t, acc) ==
    IF t # <<>> /\ Head(t) \in Digits
    THEN DigitsValue(Tail(t), 10 * acc + DigitVal(Head(t)))
    ELSE acc

\* parseInt(text, 10): leading white space, an optional sign, then the longest
\* run of digits; NaN when there is no digit.
ParseInt(text) ==
    LET t == SkipSpace(text)
        signed == t # <<>> /\ Head(t) \in {"+", "-"}
        body == IF signed THEN Tail(t) ELSE t
    IN IF body = <<>> \/ Head(body) \notin Digits THEN NaN
       ELSE IF signed /\ Head(t) = "-" THEN Num(0 - DigitsValue(body, 0))
       ELSE Num(DigitsValue(body, 0))

\* a < k and a > k for a JavaScript number a: false for NaN.
Less(a, k) == a.kind = "int" /\ a.n < k
Greater(a, k) == a.kind = "int" /\ a.n > k

\* The validation without its isNaN branch.
DaysValidationNoNaN(value) ==
    IF Less(value, 1) THEN "Days must be at least 1"
    ELSE IF Greater(value, 365) THEN "Days cannot exceed 365"
    ELSE NullStr

\* The validation without its upper limit.
DaysValidationNoUpper(value) ==
    IF value.kind = "NaN" THEN "Please enter a valid number"
    ELSE IF Less(value, 1) THEN "Days must be at least 1"
    ELSE NullStr

\* handleDaysChange: the validation message for the parsed value.
DaysValidation(value) ==
    IF value.kind = "NaN" THEN "Please enter a valid number"
    ELSE IF Less(value, 1) THEN "Days must be at least 1"
    ELSE IF Greater(value, 365) THEN "Days cannot exceed 365"
    ELSE NullStr

\* handleRunSimulation: the final validation before running.
RunRejectsDays(d) == Less(d, 1) \/ Greater(d, 365)

\* The props App passes to SimulationControl, and the run button's flag.
disabled == transitionMatrix = Null
isSimulating == isLoading
isDisabled == disabled \/ isSimulating \/ validationError # NullStr

NoSimulate == [called |-> FALSE]
NoHandlerCall == [called |-> FALSE]

(***************************************************************************)
(* App                                                                     *)
(***************************************************************************)
\* The engine failures seen by the shell.
ShellThrown == {Str("engine rejected the input")}

\* The rejection of a wrapper: always an Error object.
RejectionOf(res) == Err(res.message)

\* The catch block reporting its default message whatever was thrown.
SimulationErrorMessageDefault(err) == "Failed to run simulation"

\* handleSimulation, catch block.
SimulationErrorMessage(err) ==
    IF err.kind = "Error" THEN err.val ELSE "Failed to run simulation"

\* The guard left out: handleSimulation always goes on to runSimulation.
NoTransitionMatrixNever == FALSE

\* handleSimulation's guard: if (!transitionMatrix).
NoTransitionMatrix == transitionMatrix = Null

\* handleSimulation up to its await, called with (d, s).
HandleSimulationStart(d, s) ==
    /\ handlerCall' = [called |-> TRUE, hadMatrix |-> transitionMatrix # Null]
    /\ IF NoTransitionMatrix
       THEN /\ error' = "Please fetch weather data first"
            /\ NoHookCall
            /\ UNCHANGED <<isLoading, simPending>>
       ELSE /\ isLoading' = TRUE
            /\ error' = NullStr
            /\ \E out \in {Return(Predictions(d, s))} \cup {Throw(e) : e \in ShellThrown} :
                 LET res == runSimulation(d, s, out)
                 IN /\ Settle(res)
                    /\ simPending' = [kind |-> "pending", days |-> d, initialState |-> s,
                                      city |-> selectedCity, res |-> res,
                                      matrixBefore |-> transitionMatrix,
                                      resultsBefore |-> simulationResults]

\* True while a continuation of an async handler is queued: it runs before
\* any other event is handled.
MicrotaskPendingNever == FALSE

MicrotaskPending == simPending # Null \/ procPending # Null

\* handleSimulation after its await: try/catch/finally.
HandleSimulationFinish ==
    /\ simPending # Null
    /\ IF simPending.res.status = "resolved"
       THEN /\ simulationResults' =
                 [kind |-> "results", predictions |-> simPending.res.value,
                  days |-> simPending.days, initialState |-> simPending.initialState,
                  city |-> simPending.city]
            /\ UNCHANGED error
       ELSE /\ error' = SimulationErrorMessage(RejectionOf(simPending.res))
            /\ UNCHANGED simulationResults
    /\ isLoading' = FALSE
    /\ simPending' = Null
    /\ NoHookCall
    /\ onSimulateCall' = NoSimulate
    /\ onDataFetchedCall' = Null
    /\ handlerCall' = NoHandlerCall
    /\ UNCHANGED loadVars
    /\ UNCHANGED <<selectedCity, historicalData, transitionMatrix>>
    /\ UNCHANGED controlVars
    /\ UNCHANGED fetcherVars
    /\ UNCHANGED panelVars

\* handleSimulation invoked as a callback, whatever the control shows.
HandleSimulation ==
    /\ ~MicrotaskPending
    /\ HandleSimulationStart(Num(30), "Sunny")
    /\ onSimulateCall' = NoSimulate
    /\ onDataFetchedCall' = Null
    /\ UNCHANGED loadVars
    /\ UNCHANGED <<selectedCity, historicalData, transitionMatrix, simulationResults>>
    /\ UNCHANGED controlVars
    /\ UNCHANGED fetcherVars
    /\ UNCHANGED panelVars

\* The days input changes to `text` (handleDaysChange).
HandleDaysChange ==
    /\ isReady /\ ~MicrotaskPending /\ ~isSimulating
    /\ \E text \in DaysInputs :
         LET value == ParseInt(text)
         IN /\ days' = value
            /\ validationError' = DaysValidation(value)
    /\ onSimulateCall' = NoSimulate
    /\ onDataFetchedCall' = Null
    /\ handlerCall' = NoHandlerCall
    /\ NoHookCall
    /\ UNCHANGED loadVars
    /\ UNCHANGED appVars
    /\ UNCHANGED initialState
    /\ UNCHANGED fetcherVars
    /\ UNCHANGED panelVars

\* The initial-state select changes (handleInitialStateChange).
HandleInitialStateChange ==
    /\ isReady /\ ~MicrotaskPending /\ ~isSimulating
    /\ \E i \in 1..Len(weatherStates) : initialState' = weatherStates[i]
    /\ onSimulateCall' = NoSimulate
    /\ onDataFetchedCall' = Null
    /\ handlerCall' = NoHandlerCall
    /\ NoHookCall
    /\ UNCHANGED loadVars
    /\ UNCHANGED appVars
    /\ UNCHANGED <<days, validationError>>
    /\ UNCHANGED fetcherVars
    /\ UNCHANGED panelVars

\* The run button is clicked (handleRunSimulation); a disabled button
\* delivers no click.
HandleRunSimulation ==
    /\ isReady /\ ~MicrotaskPending /\ ~isDisabled
    /\ IF RunRejectsDays(days)
       THEN /\ validationError' = "Days must be between 1 and 365"
            /\ onSimulateCall' = NoSimulate
            /\ handlerCall' = NoHandlerCall
            /\ NoHookCall
            /\ UNCHANGED <<isLoading, error, simPending>>
       ELSE /\ validationError' = NullStr
            /\ onSimulateCall' = [called |-> TRUE, days |-> days,
                                  initialState |-> initialState]
            /\ HandleSimulationStart(days, initialState)
    /\ onDataFetchedCall' = Null
    /\ UNCHANGED loadVars
    /\ UNCHANGED <<selectedCity, historicalData, transitionMatrix, simulationResults>>
    /\ UNCHANGED <<days, initialState>>
    /\ UNCHANGED fetcherVars
    /\ UNCHANGED panelVars

(***************************************************************************)
(* DataFetcher and the weather query                                       *)
(***************************************************************************)
FetchErrors == {"API rate limit exceeded. Please try again later"}

NoQuery == [data |-> NoData, error |-> NullStr, fetching |-> FALSE]

\* What useWeatherAPI(city) returns for the selected city.  The data object
\* of a query is its own: two cities never share one.
DataOf(q, c) ==
    IF q[c].data = NoData THEN Null
    ELSE [kind |-> "data", city |-> c, payload |-> q[c].data]
data == DataOf(query, selectedCity)
queryIsLoading == query[selectedCity].fetching /\ query[selectedCity].data = NoData
queryError == query[selectedCity].error

showLoading == queryIsLoading \/ isProcessing
showError == queryError # NullStr \/ processingError # NullStr

\* refetch(): the query of city c starts fetching; a query without data
\* goes back to pending, which clears its error.
Refetch(q, c) ==
    [q EXCEPT ![c] = [data |-> q[c].data,
                      error |-> IF q[c].data = NoData THEN NullStr ELSE q[c].error,
                      fetching |-> TRUE]]

\* The option DataFetcher passes to useWeatherAPI: enabled: false.
enabledDefault == TRUE
enabledOption == FALSE

\* useQuery's enabled: enabled && !!city && !!apiKey (the key is set).
QueryEnabled(c) == enabledOption /\ c # ""

\* The query of city c gets an observer (mount, or the key changes to c):
\* an enabled query without data starts fetching by itself.
ObserveQuery(q, c) ==
    IF QueryEnabled(c) /\ q[c].data = NoData /\ ~q[c].fetching
    THEN Refetch(q, c)
    ELSE q

\* handleProcessData, catch block.
ProcessingErrorMessage(err) ==
    IF err.kind = "Error" THEN err.val ELSE "Failed to process weather data"

\* handleProcessData after its await: the matrix handed to onDataFetched,
\* Null when onDataFetched is not called.
OnDataFetchedArg(res) == IF res.status = "resolved" THEN res.value ELSE Null

\* The catch block swallowing the error.
ProcessingErrorAfterSwallow(res, before) == before

\* handleProcessData after its await: processingError afterwards.
ProcessingErrorAfter(res, before) ==
    IF res.status = "resolved" THEN before
    ELSE ProcessingErrorMessage(RejectionOf(res))

\* handleProcessData resetting isProcessing only after onDataFetched.
IsProcessingAfterNoFinally(res) == res.status # "resolved"

\* handleProcessData, finally block: setIsProcessing(false).
IsProcessingAfter(res) == FALSE

\* handleProcessData up to its await, for the data object d.
HandleProcessDataStart(d) ==
    IF d = Null
    THEN /\ NoHookCall
         /\ UNCHANGED <<isProcessing, processingError, procPending>>
    ELSE /\ isProcessing' = TRUE
         /\ processingError' = NullStr
         /\ \E out \in {Return(m) : m \in Matrices} \cup {Throw(e) : e \in ShellThrown} :
              LET res == processData(JsonStringify(d.payload), out)
              IN /\ Settle(res)
                 /\ procPending' = [kind |-> "pending", res |-> res, data |-> d]

\* The effect on [data]: runs when the data object has changed.
DataEffect(before, after) ==
    IF after # before /\ after # Null /\ ~isProcessing
    THEN HandleProcessDataStart(after)
    ELSE /\ NoHookCall
         /\ UNCHANGED <<isProcessing, processingError, procPending>>

\* handleDataFetched(matrix) of App.
HandleDataFetched(matrix) ==
    /\ transitionMatrix' = matrix
    /\ error' = NullStr

\* handleProcessData after its await: try/catch/finally.
HandleProcessDataFinish ==
    /\ procPending # Null
    /\ LET arg == OnDataFetchedArg(procPending.res)
       IN /\ onDataFetchedCall' = arg
          /\ IF arg # Null
             THEN HandleDataFetched(arg)
             ELSE UNCHANGED <<transitionMatrix, error>>
    /\ processingError' = ProcessingErrorAfter(procPending.res, processingError)
    /\ isProcessing' = IsProcessingAfter(procPending.res)
    /\ procPending' = Null
    /\ NoHookCall
    /\ onSimulateCall' = NoSimulate
    /\ handlerCall' = NoHandlerCall
    /\ UNCHANGED loadVars
    /\ UNCHANGED <<selectedCity, historicalData, simulationResults, isLoading, simPending>>
    /\ UNCHANGED controlVars
    /\ UNCHANGED query
    /\ UNCHANGED panelVars

\* Fetch Weather Data / Refresh Data (handleFetchData).
HandleFetchData ==
    /\ isReady /\ ~MicrotaskPending
    /\ ~showLoading /\ ~showError
    /\ processingError' = NullStr
    /\ query' = Refetch(query, selectedCity)
    /\ NoHookCall
    /\ onSimulateCall' = NoSimulate
    /\ onDataFetchedCall' = Null
    /\ handlerCall' = NoHandlerCall
    /\ UNCHANGED loadVars
    /\ UNCHANGED appVars
    /\ UNCHANGED controlVars
    /\ UNCHANGED <<isProcessing, procPending>>
    /\ UNCHANGED panelVars

\* Retry (handleRetry).
HandleRetry ==
    /\ isReady /\ ~MicrotaskPending
    /\ showError
    /\ IF data # Null
       THEN /\ HandleProcessDataStart(data)
            /\ UNCHANGED query
       ELSE /\ query' = Refetch(query, selectedCity)
            /\ processingError' = NullStr
            /\ NoHookCall
            /\ UNCHANGED <<isProcessing, procPending>>
    /\ onSimulateCall' = NoSimulate
    /\ onDataFetchedCall' = Null
    /\ handlerCall' = NoHandlerCall
    /\ UNCHANGED loadVars
    /\ UNCHANGED appVars
    /\ UNCHANGED controlVars
    /\ UNCHANGED panelVars

\* The fetch of city c's query succeeds with a payload.
FetchResolved ==
    /\ ~MicrotaskPending
    /\ \E c \in Cities, p \in Payloads :
         /\ query[c].fetching
         /\ query' = [query EXCEPT ![c] = [data |-> p, error |-> NullStr, fetching |-> FALSE]]
         /\ DataEffect(data, DataOf(query', selectedCity))
    /\ onSimulateCall' = NoSimulate
    /\ onDataFetchedCall' = Null
    /\ handlerCall' = NoHandlerCall
    /\ UNCHANGED loadVars
    /\ UNCHANGED appVars
    /\ UNCHANGED controlVars
    /\ UNCHANGED panelVars

\* The fetch of city c's query fails.
FetchRejected ==
    /\ ~MicrotaskPending
    /\ \E c \in Cities, e \in FetchErrors :
         /\ query[c].fetching
         /\ query' = [query EXCEPT ![c] = [data |-> query[c].data, error |-> e,
                                           fetching |-> FALSE]]
    /\ NoHookCall
    /\ onSimulateCall' = NoSimulate
    /\ onDataFetchedCall' = Null
    /\ handlerCall' = NoHandlerCall
    /\ UNCHANGED loadVars
    /\ UNCHANGED appVars
    /\ UNCHANGED controlVars
    /\ UNCHANGED <<isProcessing, processingError, procPending>>
    /\ UNCHANGED panelVars

\* handleCityChange keeping the matrix of the previous city.
MatrixAfterCityChangeKept(matrix) == matrix

\* handleCityChange: setTransitionMatrix(null).
MatrixAfterCityChange(matrix) == Null

\* The city select changes to another city (handleCityChange); DataFetcher
\* then sees the new city's query.
HandleCityChange ==
    /\ isReady /\ ~MicrotaskPending
    /\ \E city \in Cities \ {selectedCity} :
         /\ selectedCity' = city
         /\ query' = ObserveQuery(query, city)
         /\ DataEffect(data, DataOf(query, city))
    /\ historicalData' = Null
    /\ transitionMatrix' = MatrixAfterCityChange(transitionMatrix)
    /\ simulationResults' = Null
    /\ error' = NullStr
    /\ onSimulateCall' = NoSimulate
    /\ onDataFetchedCall' = Null
    /\ handlerCall' = NoHandlerCall
    /\ UNCHANGED loadVars
    /\ UNCHANGED <<isLoading, simPending>>
    /\ UNCHANGED controlVars
    /\ UNCHANGED panelVars

(***************************************************************************)
(* The shell: initial state and next-state relation                        *)
(***************************************************************************)
InitHook ==
    /\ wasmModule = NullModule
    /\ isReady = FALSE
    /\ hookError = Null
    /\ loadPc = "importing"
    /\ mounted = TRUE
    /\ loadTrace = <<>>
    /\ engineCall = NoCall
    /\ hookResult = NoResult
    /\ matrixBuilt = FALSE
    /\ trajectorySimulated = FALSE

InitShell ==
    /\ selectedCity = "Mumbai"
    /\ historicalData = Null
    /\ transitionMatrix = Null
    /\ simulationResults = Null
    /\ isLoading = FALSE
    /\ error = NullStr
    /\ simPending = Null
    /\ days = Num(30)
    /\ initialState = "Sunny"
    /\ validationError = NullStr
    /\ handlerCall = NoHandlerCall
    /\ onSimulateCall = NoSimulate
    /\ query = ObserveQuery([c \in Cities |-> NoQuery], "Mumbai")
    /\ isProcessing = FALSE
    /\ processingError = NullStr
    /\ procPending = Null
    /\ onDataFetchedCall = Null

NoStatistics ==
    /\ statistics = Null
    /\ selfProbs = Null
    /\ shownStreak = Null

\* WeatherTimeline is not rendered by App.
NoTimeline ==
    /\ simulationData = Null
    /\ shownSummary = Null

\* The weather query followed attempt by attempt, not started.
NoMessage == <<>>
NoResponse == 0
NoOutcome == [status |-> "none"]
IdleQuery == [status |-> "pending", data |-> NoData, error |-> NoMessage]

NoWeatherQuery ==
    /\ apiKey = ""
    /\ cityParam = ""
    /\ fetchPc = "idle"
    /\ failureCount = 0
    /\ executions = 0
    /\ httpRequests = 0
    /\ retryDelays = <<>>
    /\ response = NoResponse
    /\ fetchOutcome = NoOutcome
    /\ queryResult = IdleQuery

Init == InitHook /\ InitShell /\ NoStatistics /\ NoTimeline /\ NoWeatherQuery

shellVars == <<appVars, controlVars, fetcherVars, callbackVars, panelVars>>

\* A step in which no callback of the shell is invoked.
NoCallbacks ==
    /\ handlerCall' = NoHandlerCall
    /\ onSimulateCall' = NoSimulate
    /\ onDataFetchedCall' = Null

\* A step of the hook's loadWASM effect, seen from the shell.
InShell(loadStep) ==
    /\ loadStep
    /\ NoCallbacks
    /\ UNCHANGED <<appVars, controlVars, fetcherVars, panelVars>>

Next ==
    \/ InShell(LoadImportResolved)
    \/ InShell(LoadImportRejected)
    \/ InShell(LoadDefaultResolved)
    \/ InShell(LoadDefaultRejected)
    \/ HandleCityChange
    \/ HandleFetchData
    \/ HandleRetry
    \/ FetchResolved
    \/ FetchRejected
    \/ HandleProcessDataFinish
    \/ HandleDaysChange
    \/ HandleInitialStateChange
    \/ HandleRunSimulation
    \/ HandleSimulation
    \/ HandleSimulationFinish

Spec == Init /\ [][Next]_vars

(***************************************************************************)
(* DataFetcher in the shell, without the simulation controls.  The part of *)
(* handleProcessData after its await is the continuation of a settled      *)
(* promise: a microtask, which the event loop always runs.                 *)
(***************************************************************************)
NextFetcher ==
    \/ InShell(LoadImportResolved)
    \/ InShell(LoadImportRejected)
    \/ InShell(LoadDefaultResolved)
    \/ InShell(LoadDefaultRejected)
    \/ HandleCityChange
    \/ HandleFetchData
    \/ HandleRetry
    \/ FetchResolved
    \/ FetchRejected
    \/ HandleProcessDataFinish

SpecFetcher == Init /\ [][NextFetcher]_vars /\ WF_vars(HandleProcessDataFinish)

(***************************************************************************)
(* The hook on its own, called by any consumer in any order                *)
(***************************************************************************)
\* A step of the hook with no shell around it.
HookOnly(step) == step /\ UNCHANGED shellVars

NextHook ==
    \/ HookOnly(LoadImportResolved)
    \/ HookOnly(LoadImportRejected)
    \/ HookOnly(LoadDefaultResolved)
    \/ HookOnly(LoadDefaultRejected)
    \/ HookOnly(Unmount)
    \/ HookOnly(CallProcessData)
    \/ HookOnly(CallRunSimulation)
    \/ HookOnly(CallGetStatistics)

SpecHook == Init /\ [][NextHook]_vars

(***************************************************************************)
(* StatisticsPanel: expected consecutive days                              *)
(***************************************************************************)
\* Probabilities are multiples of 1/ProbDen; a two-state chain is given by
\* its diagonal.
ProbDen == 4
Probs == 0..ProbDen
StatStates == {"Sunny", "Rainy"}

\* JavaScript numbers met by the panel: a non-negative fraction, Infinity,
\* NaN; Undefined is a missing key.
Fin(n, d) == [kind |-> "fin", num |-> n, den |-> d]
Infinity == [kind |-> "Infinity"]
NaNValue == [kind |-> "NaN"]
Undefined == [kind |-> "undefined"]

\* Two fractions that are the same number.
SameNumber(a, b) ==
    IF a.kind = "fin" /\ b.kind = "fin" THEN a.num * b.den = b.num * a.den
    ELSE a.kind = b.kind /\ a.kind # "NaN"

\* A value that counts as true in a condition.
Truthy(v) == v.kind = "Infinity" \/ (v.kind = "fin" /\ v.num # 0)

\* 1 / (1 - k/ProbDen) as JavaScript computes it: Infinity when k = ProbDen.
OneOverOneMinus(k) == IF k = ProbDen THEN Infinity ELSE Fin(ProbDen, ProbDen - k)

\* calculateAverageStreak(state) for the statistics prop st.
calculateAverageStreak(st, state) ==
    IF st.averageStreaks # Undefined /\ Truthy(st.averageStreaks.of[state])
    THEN st.averageStreaks.of[state]
    ELSE LET selfProb == st.steadyState[state]
         IN IF selfProb > 0 THEN OneOverOneMinus(selfProb) ELSE Fin(1, 1)

\* avgStreak.toFixed(2): the number in hundredths, rounded; Infinity and
\* NaN print as their names.
ToFixed2(v) ==
    IF v.kind = "fin"
    THEN [kind |-> "text", hundredths |-> (200 * v.num + v.den) \div (2 * v.den)]
    ELSE [kind |-> v.kind]

\* The values average_streaks may carry for a state with self-transition
\* probability k/ProbDen.
StreakInputs(k) ==
    {Undefined, Fin(0, 1), NaNValue, Infinity}
      \cup (IF k < ProbDen THEN {Fin(ProbDen, ProbDen - k)} ELSE {})

\* pi is stationary for the two-state chain with diagonal diag.
Stationary(pi, diag) ==
    /\ pi["Sunny"] + pi["Rainy"] = ProbDen
    /\ pi["Sunny"] * (ProbDen - diag["Sunny"]) = pi["Rainy"] * (ProbDen - diag["Rainy"])

InitStats ==
    /\ InitHook /\ InitShell
    /\ selfProbs \in [StatStates -> Probs]
    /\ \E pi \in [StatStates -> Probs] :
         /\ Stationary(pi, selfProbs)
         /\ \E avg \in {Undefined} \cup
                 { [kind |-> "object", of |-> f] :
                     f \in { g \in [StatStates -> UNION {StreakInputs(k) : k \in Probs}] :
                               \A s \in StatStates : g[s] \in StreakInputs(selfProbs[s]) } } :
              statistics = [kind |-> "statistics", steadyState |-> pi,
                            averageStreaks |-> avg]
    /\ shownStreak = Null
    /\ NoTimeline /\ NoWeatherQuery

\* The panel renders the expected consecutive days of every state.
Render ==
    /\ shownStreak = Null
    /\ shownStreak' =
         [kind |-> "shown",
          value |-> [s \in StatStates |-> calculateAverageStreak(statistics, s)],
          text |-> [s \in StatStates |-> ToFixed2(calculateAverageStreak(statistics, s))]]
    /\ UNCHANGED <<statistics, selfProbs>>
    /\ UNCHANGED <<hookVars, appVars, controlVars, fetcherVars, callbackVars>>
    /\ UNCHANGED <<timelineVars, weatherVars>>

NextStats == Render

SpecStats == InitStats /\ [][NextStats]_vars

(***************************************************************************)
(* WeatherTimeline: summary statistics                                     *)
(***************************************************************************)
MaxDays == 3

\* The keys of stateColors, in order: the states the timeline displays.
stateColors == <<"Sunny", "Rainy", "Cloudy">>

\* SimulationDay.state is a string: the states a trajectory may carry.
TimelineStates == {"Sunny", "Rainy", "Cloudy", "Snowy"}

\* The simulationData prop for the state sequence t.
SimulationDays(t) == [i \in 1..Len(t) |-> [day |-> i, state |-> t[i]]]

SimulationDataInputs ==
    {SimulationDays(t) : t \in UNION {[1..n -> TimelineStates] : n \in 0..MaxDays}}

\* simulationData.filter((d) => d.state === state).length
FilterCount(simData, state) ==
    Cardinality({i \in 1..Len(simData) : simData[i].state = state})

\* ((count / length) * 100).toFixed(1): the number in tenths, rounded;
\* 0 / 0 is NaN and prints as its name.
PercentageText(count, length) ==
    IF length = 0 THEN [kind |-> "NaN"]
    ELSE [kind |-> "text", tenths |-> (2000 * count + length) \div (2 * length)]

\* The summary cell of one displayed state.
SummaryCell(simData, state) ==
    [state |-> state,
     count |-> FilterCount(simData, state),
     percentage |-> PercentageText(FilterCount(simData, state), Len(simData))]

InitTimeline ==
    /\ InitHook /\ InitShell /\ NoStatistics /\ NoWeatherQuery
    /\ simulationData \in SimulationDataInputs
    /\ shownSummary = Null

\* The timeline renders one summary cell per key of stateColors.
RenderTimeline ==
    /\ shownSummary = Null
    /\ shownSummary' = [i \in 1..Len(stateColors) |->
                            SummaryCell(simulationData, stateColors[i])]
    /\ UNCHANGED simulationData
    /\ UNCHANGED <<hookVars, appVars, controlVars, fetcherVars, callbackVars>>
    /\ UNCHANGED <<statsVars, weatherVars>>

NextTimeline == RenderTimeline

SpecTimeline == InitTimeline /\ [][NextTimeline]_vars

(***************************************************************************)
(* useWeatherAPI: fetchWeatherData and the retries of one query            *)
(***************************************************************************)
\* useQuery({ retry: 3, retryDelay }).
retry == 3

MaxAttemptIndex == 8

\* The API key is missing ("") or set; the city is empty or named.
ApiKeys == {"", "key"}
CityParams == {"", "Mumbai"}

HttpStatuses == {200, 400, 401, 429, 500}

StatusText(status) ==
    CASE status = 200 -> "OK"
      [] status = 400 -> "Bad Request"
      [] status = 401 -> "Unauthorized"
      [] status = 429 -> "Too Many Requests"
      [] OTHER -> "Internal Server Error"

\* response.ok
ResponseOk(status) == status >= 200 /\ status <= 299

RECURSIVE Pow2(_)
Pow2(k) == IF k = 0 THEN 1 ELSE 2 * Pow2(k - 1)

Min(a, b) == IF a < b THEN a ELSE b

\* The backoff without its cap.
retryDelayNoCap(attemptIndex) == 1000 * Pow2(attemptIndex)

\* retryDelay: Math.min(1000 * 2 ** attemptIndex, 30000)
retryDelay(attemptIndex) == Min(1000 * Pow2(attemptIndex), 30000)

\* Error messages are sequences of their parts, so that a template literal
\* keeps what it interpolates.
KeyMissingMessage ==
    <<"Weather API key not found. Please set VITE_WEATHER_API_KEY in your .env file">>
CityRequiredMessage == <<"City parameter is required">>
NetworkErrorMessage == <<"Failed to fetch">>
JsonErrorMessage == <<"Unexpected end of JSON input">>

\* The two checks in the other order.
PreflightErrorCityFirst(key, c) ==
    IF c = "" THEN CityRequiredMessage
    ELSE IF key = "" THEN KeyMissingMessage
    ELSE NoMessage

\* fetchWeatherData before its request: the error thrown, NoMessage if none.
PreflightError(key, c) ==
    IF key = "" THEN KeyMissingMessage
    ELSE IF c = "" THEN CityRequiredMessage
    ELSE NoMessage

\* The status branches without the one for 429.
ResponseErrorMessageNo429(status, c) ==
    IF status = 401
    THEN <<"Invalid API key. Please check your VITE_WEATHER_API_KEY">>
    ELSE IF status = 400 THEN <<"Invalid city name: ", c>>
    ELSE <<"Failed to fetch weather data: ", StatusText(status)>>

\* fetchWeatherData on a response that is not ok: the error thrown.
ResponseErrorMessage(status, c) ==
    IF status = 401
    THEN <<"Invalid API key. Please check your VITE_WEATHER_API_KEY">>
    ELSE IF status = 400 THEN <<"Invalid city name: ", c>>
    ELSE IF status = 429 THEN <<"API rate limit exceeded. Please try again later">>
    ELSE <<"Failed to fetch weather data: ", StatusText(status)>>

\* The retryer's test after a failure: failureCount < retry.
ShouldRetry(count) == count < retry

\* fetchWeatherData throws err: the retryer either waits retryDelay and
\* runs it again, or gives up and the query reports the error.
RetryerCatch(err) ==
    /\ fetchOutcome' = [status |-> "rejected", message |-> err]
    /\ IF ShouldRetry(failureCount)
       THEN /\ retryDelays' = Append(retryDelays, retryDelay(failureCount))
            /\ failureCount' = failureCount + 1
            /\ fetchPc' = "sleeping"
            /\ UNCHANGED queryResult
       ELSE /\ fetchPc' = "settled"
            /\ queryResult' = [status |-> "error", data |-> queryResult.data,
                               error |-> err]
            /\ UNCHANGED <<failureCount, retryDelays>>

\* refetch(): a new request starts; a query without data goes back to
\* pending.
QueryRefetch ==
    /\ fetchPc \in {"idle", "settled"}
    /\ fetchPc' = "run"
    /\ failureCount' = 0
    /\ executions' = 0
    /\ httpRequests' = 0
    /\ retryDelays' = <<>>
    /\ response' = NoResponse
    /\ fetchOutcome' = NoOutcome
    /\ queryResult' = IF queryResult.data = NoData THEN IdleQuery ELSE queryResult
    /\ UNCHANGED <<apiKey, cityParam>>

\* fetchWeatherData up to `await fetch(url)`.
FetchWeatherDataStart ==
    /\ fetchPc = "run"
    /\ executions' = executions + 1
    /\ response' = NoResponse
    /\ LET err == PreflightError(apiKey, cityParam)
       IN IF err # NoMessage
          THEN /\ RetryerCatch(err)
               /\ UNCHANGED httpRequests
          ELSE /\ httpRequests' = httpRequests + 1
               /\ fetchPc' = "awaitingResponse"
               /\ fetchOutcome' = [status |-> "pending"]
               /\ UNCHANGED <<failureCount, retryDelays, queryResult>>
    /\ UNCHANGED <<apiKey, cityParam>>

\* fetch(url) resolves with a response: the status checks.
FetchResponded ==
    /\ fetchPc = "awaitingResponse"
    /\ \E status \in HttpStatuses :
         /\ response' = status
         /\ IF ResponseOk(status)
            THEN /\ fetchPc' = "awaitingJson"
                 /\ UNCHANGED <<failureCount, retryDelays, queryResult, fetchOutcome>>
            ELSE RetryerCatch(ResponseErrorMessage(status, cityParam))
    /\ UNCHANGED <<apiKey, cityParam, executions, httpRequests>>

\* fetch(url) rejects (no response).
FetchFailed ==
    /\ fetchPc = "awaitingResponse"
    /\ RetryerCatch(NetworkErrorMessage)
    /\ UNCHANGED <<apiKey, cityParam, executions, httpRequests, response>>

\* response.json() resolves: fetchWeatherData returns the data.
JsonResolved ==
    /\ fetchPc = "awaitingJson"
    /\ \E p \in Payloads :
         /\ fetchOutcome' = [status |-> "resolved", data |-> p]
         /\ queryResult' = [status |-> "success", data |-> p, error |-> NoMessage]
    /\ fetchPc' = "settled"
    /\ UNCHANGED <<apiKey, cityParam, failureCount, executions, httpRequests,
                   retryDelays, response>>

\* response.json() rejects.
JsonRejected ==
    /\ fetchPc = "awaitingJson"
    /\ RetryerCatch(JsonErrorMessage)
    /\ UNCHANGED <<apiKey, cityParam, executions, httpRequests, response>>

\* The retry delay has passed: fetchWeatherData runs again.
RetryTimer ==
    /\ fetchPc = "sleeping"
    /\ fetchPc' = "run"
    /\ UNCHANGED <<apiKey, cityParam, failureCount, executions, httpRequests,
                   retryDelays, response, fetchOutcome, queryResult>>

InitQuery ==
    /\ InitHook /\ InitShell /\ NoStatistics /\ NoTimeline
    /\ apiKey \in ApiKeys
    /\ cityParam \in CityParams
    /\ fetchPc = "idle"
    /\ failureCount = 0
    /\ executions = 0
    /\ httpRequests = 0
    /\ retryDelays = <<>>
    /\ response = NoResponse
    /\ fetchOutcome = NoOutcome
    /\ queryResult = IdleQuery

\* A step of the query with nothing around it.
QueryOnly(step) ==
    /\ step
    /\ UNCHANGED <<hookVars, appVars, controlVars, fetcherVars, callbackVars>>
    /\ UNCHANGED <<statsVars, timelineVars>>

NextQuery ==
    \/ QueryOnly(QueryRefetch)
    \/ QueryOnly(FetchWeatherDataStart)
    \/ QueryOnly(FetchResponded)
    \/ QueryOnly(FetchFailed)
    \/ QueryOnly(JsonResolved)
    \/ QueryOnly(JsonRejected)
    \/ QueryOnly(RetryTimer)

SpecQuery == InitQuery /\ [][NextQuery]_vars

(***************************************************************************)
(* Properties                                                              *)
(***************************************************************************)

\* C1: the engine's run_simulation is invoked only while App holds a
\* transition matrix; handleSimulation called without one sets the error
\* "Please fetch weather data first", leaves isLoading false and calls
\* nothing; and the run button is disabled while there is no matrix.
C1_SimulationRequiresMatrix ==
    /\ engineCall.op = "run_simulation" => transitionMatrix # Null
    /\ (handlerCall.called /\ ~handlerCall.hadMatrix) =>
          /\ error = "Please fetch weather data first"
          /\ ~isLoading
          /\ simPending = Null
          /\ engineCall = NoCall
          /\ hookResult = NoResult
    /\ transitionMatrix = Null => isDisabled

C1_Witness ==
    /\ handlerCall.called
    /\ ~handlerCall.hadMatrix
    /\ error = "Please fetch weather data first"

\* C2: SimulationControl invokes onSimulate only with days an integer in
\* 1..365.
C2_OnSimulateDaysInRange ==
    onSimulateCall.called =>
        /\ onSimulateCall.days.kind = "int"
        /\ onSimulateCall.days.n >= 1
        /\ onSimulateCall.days.n <= 365

C2_Witness ==
    /\ onSimulateCall.called
    /\ onSimulateCall.days = Num(1)

\* The default message of each wrapper.
DefaultMessage(op) ==
    CASE op = "processData" -> "Failed to process weather data"
      [] op = "runSimulation" -> "Failed to run simulation"
      [] op = "getStatistics" -> "Failed to get statistics"

\* C3: when the engine call of a wrapper throws e, the wrapper rejects with
\* the message e (a string), e.message (an Error), or else the wrapper's
\* default message.
C3_ThrownBecomesRejection ==
    (hookResult.op # "none" /\ hookResult.thrown # Null) =>
        /\ hookResult.status = "rejected"
        /\ hookResult.message =
             (IF hookResult.thrown.kind \in {"string", "Error"}
              THEN hookResult.thrown.val
              ELSE DefaultMessage(hookResult.op))

C3_Witness ==
    /\ hookResult.op = "getStatistics"
    /\ hookResult.thrown = Str("engine rejected the input")
    /\ hookResult.message = "engine rejected the input"

\* C4: a wrapper called while the module is not loaded or not ready rejects
\* with "WASM module not ready" and calls nothing in the engine.
C4_NotReadyRejects ==
    (hookResult.op # "none" /\ (wasmModule = NullModule \/ ~isReady)) =>
        /\ hookResult.status = "rejected"
        /\ hookResult.message = "WASM module not ready"
        /\ engineCall = NoCall

C4_Witness ==
    /\ hookResult.op = "runSimulation"
    /\ ~isReady
    /\ hookResult.message = "WASM module not ready"

\* C5: isReady holds only after the import, the module's default
\* initializer and init_markov_engine have completed in that order, and
\* then the module is set and the error is null; a failed load of a mounted
\* hook leaves isReady false and the error set.
C5_ReadyOnlyAfterInit ==
    /\ isReady =>
          /\ loadTrace = <<"import", "default", "init_markov_engine">>
          /\ wasmModule # NullModule
          /\ hookError = Null
    /\ (loadPc = "failed" /\ mounted) =>
          /\ ~isReady
          /\ hookError # Null

C5_Witness ==
    /\ loadPc = "failed"
    /\ mounted
    /\ Len(loadTrace) = 2
    /\ hookError = Err("Failed to load WASM module")

\* C6: when a run-simulation request fails, App sets error to the failure
\* message, leaves transitionMatrix and simulationResults as they were
\* before the request, resets isLoading, and the run button's props allow a
\* new request.
C6_FailedSimulationRecovers ==
    [][(simPending # Null /\ simPending.res.status = "rejected" /\ simPending' = Null) =>
          /\ error' = simPending.res.message
          /\ transitionMatrix' = simPending.matrixBefore
          /\ simulationResults' = simPending.resultsBefore
          /\ ~isLoading'
          /\ ~disabled'
          /\ ~isSimulating']_vars

C6_Witness ==
    /\ error = "engine rejected the input"
    /\ simPending = Null
    /\ ~isLoading
    /\ transitionMatrix # Null
    /\ simulationResults # Null

\* C7: onDataFetched is called only with the matrix of a processData call
\* that resolved; when processData rejects, onDataFetched is not called and
\* processingError is set.
C7_OnDataFetchedOnlyOnSuccess ==
    [][/\ onDataFetchedCall' # Null =>
            /\ procPending # Null
            /\ procPending.res.status = "resolved"
            /\ onDataFetchedCall' = procPending.res.value
       /\ (procPending # Null /\ procPending.res.status = "rejected" /\ procPending' = Null) =>
            /\ onDataFetchedCall' = Null
            /\ processingError' # NullStr
            /\ transitionMatrix' = transitionMatrix]_vars

C7_Witness ==
    /\ processingError = "engine rejected the input"
    /\ procPending = Null
    /\ ~isProcessing
    /\ onDataFetchedCall = Null

\* C8: get_statistics is reached only after process_weather_data has
\* returned a matrix and run_simulation a trajectory.
C8_StatisticsAfterMatrixAndTrajectory ==
    engineCall.op = "get_statistics" => (matrixBuilt /\ trajectorySimulated)

\* average_streaks is absent, or carries 1 / (1 - p_self) for every state
\* that is not absorbing.
AveragesAbsentOrAnalytic ==
    \/ statistics.averageStreaks = Undefined
    \/ \A s \in StatStates :
         selfProbs[s] < ProbDen =>
           SameNumber(statistics.averageStreaks.of[s], Fin(ProbDen, ProbDen - selfProbs[s]))

\* C9: for every state the expected consecutive days shown equal
\* 1 / (1 - p_self), p_self the state's self-transition probability.
C9_ShownIsOneOverOneMinusSelf ==
    (shownStreak # Null /\ AveragesAbsentOrAnalytic) =>
        \A s \in StatStates :
            selfProbs[s] < ProbDen =>
                /\ SameNumber(shownStreak.value[s], Fin(ProbDen, ProbDen - selfProbs[s]))
                /\ shownStreak.text[s] = ToFixed2(Fin(ProbDen, ProbDen - selfProbs[s]))

\* C10: calculateAverageStreak never yields Infinity or NaN, whatever the
\* statistics (here: without average_streaks, so the panel computes it).
C10_NeverInfiniteOrNaN ==
    (shownStreak # Null /\ statistics.averageStreaks = Undefined) =>
        \A s \in StatStates :
            /\ shownStreak.value[s].kind = "fin"
            /\ shownStreak.text[s].kind = "text"

\* C11: for a non-empty trajectory the timeline's summary shows, for every
\* state of the trajectory, its number of occurrences and that number over
\* the trajectory length, and the displayed counts sum to the length.
RECURSIVE SumCounts(_, _)
SumCounts(cells, n) == IF n = 0 THEN 0 ELSE cells[n].count + SumCounts(cells, n - 1)

C11_SummaryCountsEveryDay ==
    (shownSummary # Null /\ Len(simulationData) > 0) =>
        /\ \A i \in 1..Len(simulationData) :
              \E c \in 1..Len(shownSummary) :
                 /\ shownSummary[c].state = simulationData[i].state
                 /\ shownSummary[c].count =
                      FilterCount(simulationData, simulationData[i].state)
                 /\ shownSummary[c].percentage =
                      PercentageText(shownSummary[c].count, Len(simulationData))
        /\ SumCounts(shownSummary, Len(shownSummary)) = Len(simulationData)

\* C12: within one request the fetch function runs at most 3 times before
\* the query gives up and reports its error.
C12_AtMostThreeExecutions == executions <= 3

\* C13: retryDelay(k) = min(1000 * 2^k, 30000): the retries of one request
\* wait 1000, 2000 and 4000 ms, and for every k the delay does not decrease
\* from k to k + 1 and never exceeds 30000.
C13_ExponentialBackoffCapped ==
    /\ Len(retryDelays) <= 3
    /\ \A i \in 1..Len(retryDelays) : retryDelays[i] = <<1000, 2000, 4000>>[i]
    /\ \A k \in 0..MaxAttemptIndex :
         /\ retryDelay(k) = IF k <= 4 THEN 1000 * Pow2(k) ELSE 30000
         /\ retryDelay(k) <= retryDelay(k + 1)
         /\ retryDelay(k) <= 30000

C13_Witness == retryDelays = <<1000, 2000, 4000>> /\ fetchPc = "settled"

\* C15: with the API key missing or the city empty fetchWeatherData issues
\* no HTTP request and fails, with the key's message when the key is
\* missing and otherwise with the city's message.
C15_NoRequestWithoutKeyOrCity ==
    (apiKey = "" \/ cityParam = "") =>
        /\ httpRequests = 0
        /\ response = NoResponse
        /\ fetchOutcome # NoOutcome =>
             fetchOutcome = [status |-> "rejected",
                             message |-> IF apiKey = "" THEN KeyMissingMessage
                                         ELSE CityRequiredMessage]

C15_Witness ==
    /\ apiKey = "" /\ cityParam = ""
    /\ fetchOutcome = [status |-> "rejected", message |-> KeyMissingMessage]

\* C16: fetchWeatherData returns data only for an ok response; a response
\* that is not ok makes it fail with the message of its status: invalid key
\* for 401, invalid city for 400, rate limit for 429, and otherwise the
\* generic "Failed to fetch weather data" message.
C16_OnlyOkResponseReturnsData ==
    /\ fetchOutcome.status = "resolved" =>
          /\ response # NoResponse /\ ResponseOk(response)
          /\ queryResult.data = fetchOutcome.data
    /\ (response # NoResponse /\ ~ResponseOk(response)) =>
          /\ fetchOutcome.status = "rejected"
          /\ fetchOutcome.message[1] =
               CASE response = 401 ->
                      "Invalid API key. Please check your VITE_WEATHER_API_KEY"
                 [] response = 400 -> "Invalid city name: "
                 [] response = 429 ->
                      "API rate limit exceeded. Please try again later"
                 [] OTHER -> "Failed to fetch weather data: "
          /\ response = 400 => fetchOutcome.message[2] = cityParam

C16_Witness ==
    /\ response = 429
    /\ fetchOutcome.status = "rejected"
    /\ fetchOutcome.message = <<"API rate limit exceeded. Please try again later">>

\* C14: handleCityChange(c) leaves selectedCity = c with historicalData,
\* transitionMatrix, simulationResults and error null and the simulation
\* control disabled; a null matrix only becomes non-null through
\* handleDataFetched.
C14_CityChangeResets ==
    [][/\ selectedCity' # selectedCity =>
            /\ historicalData' = Null
            /\ transitionMatrix' = Null
            /\ simulationResults' = Null
            /\ error' = NullStr
            /\ disabled' /\ isDisabled'
       /\ (transitionMatrix = Null /\ transitionMatrix' # Null) =>
            /\ onDataFetchedCall' = transitionMatrix'
            /\ selectedCity' = selectedCity]_vars

C14_Witness ==
    /\ selectedCity = "Delhi"
    /\ matrixBuilt /\ trajectorySimulated
    /\ transitionMatrix = Null /\ simulationResults = Null
    /\ isDisabled

\* C17: the weather query of DataFetcher never starts a fetch by itself:
\* none is running after mount, and a fetch starts only in a step of
\* handleFetchData (Fetch Weather Data, Refresh Data) or of handleRetry
\* without data, for the selected city; a city change starts none.
C17_FetchOnlyOnUserAction ==
    /\ \A c \in Cities : ~query[c].fetching
    /\ [][\A c \in Cities :
            (~query[c].fetching /\ query'[c].fetching) =>
                /\ c = selectedCity /\ selectedCity' = selectedCity
                /\ HandleFetchData \/ (HandleRetry /\ data = Null)]_vars

C17_Witness ==
    /\ selectedCity = "Delhi"
    /\ query["Delhi"].fetching
    /\ ~query["Mumbai"].fetching

\* C18: every run of handleProcessData that sets isProcessing eventually
\* sets it back to false, whether processData resolves or rejects; after a
\* rejection the error view with its Retry control is shown.
C18_ProcessingEventuallyEnds ==
    /\ isProcessing ~> ~isProcessing
    /\ [][(procPending # Null /\ procPending' = Null) =>
            /\ ~isProcessing'
            /\ procPending.res.status = "rejected" =>
                 (processingError' # NullStr /\ showError')]_vars

C18_Witness ==
    /\ data # Null /\ queryError = NullStr
    /\ processingError # NullStr /\ showError
    /\ ~isProcessing /\ procPending = Null

\* C19: SimulationControl starts with days = 30, initialState = "Sunny" and
\* validationError = null, and in every reachable state validationError is
\* null exactly when days is an integer with 1 <= days <= 365.
C19_ValidationErrorIffOutOfRange ==
    /\ days = Num(30) /\ initialState = "Sunny" /\ validationError = NullStr
    /\ [](validationError = NullStr <=>
            (days.kind = "int" /\ 1 <= days.n /\ days.n <= 365))

C19_Witness ==
    /\ days = NaN
    /\ validationError = "Please enter a valid number"
    /\ transitionMatrix # Null

\* C20: whenever the weather query's error is shown, a click on Retry
\* starts a new fetch for the selected city.
C20_RetryRefetchesOnFetchError ==
    [][(queryError # NullStr /\ HandleRetry) =>
          query'[selectedCity].fetching]_vars

\* C21: after a city change DataFetcher shows nothing left over from the
\* previous city: unless the step starts processing the new city's data,
\* processingError is null and isProcessing is false.
C21_CityChangeClearsProcessingState ==
    [][(selectedCity' # selectedCity /\ procPending' = Null) =>
          (processingError' = NullStr /\ ~isProcessing')]_vars

\* C22: a matrix is installed only by a processData call made for the data
\* of the city that is selected when it is installed, and a city change
\* leaves no matrix: a non-null transitionMatrix was built from the
\* selected city's data.
C22_MatrixIsOfSelectedCity ==
    [][/\ selectedCity' # selectedCity => transitionMatrix' = Null
       /\ (onDataFetchedCall' # Null \/
           (transitionMatrix' # transitionMatrix /\ transitionMatrix' # Null)) =>
             /\ procPending # Null
             /\ procPending.res.status = "resolved"
             /\ transitionMatrix' = procPending.res.value
             /\ procPending.data.city = selectedCity
             /\ selectedCity' = selectedCity
             /\ procPending.data = data]_vars

C22_Witness ==
    /\ selectedCity = "Delhi"
    /\ query["Mumbai"].data # NoData
    /\ onDataFetchedCall # Null
    /\ transitionMatrix = onDataFetchedCall

\* C23: the initial state handed to onSimulate is a member of the states
\* of the matrix App holds.
C23_InitialStateInMatrixStates ==
    onSimulateCall.called =>
        /\ transitionMatrix # Null
        /\ \E i \in 1..Len(transitionMatrix.states) :
              transitionMatrix.states[i] = onSimulateCall.initialState

====
